---------------------------- MODULE Spec2Model ----------------------------
(***************************************************************************)
(* The organisation hierarchy of pabtab/gong-assesment: the flat relation  *)
(* of User records, the forest built from it by buildHierarchy, the        *)
(* removal of a node by removeNode, and the zustand store (useUsersStore)  *)
(* that holds both.                                                        *)
(*                                                                         *)
(* User records are JavaScript objects: the model keeps them in a heap     *)
(* indexed by object address, and an array of users is a sequence of       *)
(* addresses, so that an assignment to user.managerId is seen through      *)
(* every array that holds the object.                                      *)
(***************************************************************************)
EXTENDS Integers, Sequences, FiniteSets, TLC

\* Longest relation the data source delivers.
MaxLen == 3
\* The value of an absent optional property (managerId?, photo?).
Undef == -1

\* The ids records carry: 0, the falsy number, and two others.
Ids == {0, 1, 2}
\* managerId?: number
Mgrs == {Undef} \cup Ids
\* The nodes removeNode and removeUser are called with: the call reads only
\* the id and the managerId of the node.
Nodes == [id : Ids, managerId : Mgrs]

\* JavaScript truthiness of an optional number: undefined and 0 are falsy.
Truthy(m) == m # Undef /\ m # 0

\* The record object the data source delivers in slot k of the relation.
\* The descriptive fields are opaque to the hierarchy code; each object
\* carries values of its own so that two records are never confused.
User(k, i, m) ==
    [id |-> i, managerId |-> m, email |-> k, firstName |-> k, lastName |-> k,
     password |-> k, photo |-> IF k % 2 = 0 THEN Undef ELSE k]

\* UserNode copying the required fields only: the optional photo is lost.
UserNodeNoPhoto(user) ==
    [id |-> user.id, managerId |-> user.managerId, email |-> user.email,
     firstName |-> user.firstName, lastName |-> user.lastName,
     password |-> user.password, photo |-> Undef, children |-> <<>>]

\* { ...user, children: [] }
UserNode(user) ==
    [id |-> user.id, managerId |-> user.managerId, email |-> user.email,
     firstName |-> user.firstName, lastName |-> user.lastName,
     password |-> user.password, photo |-> user.photo, children |-> <<>>]

EmptyMap == [x \in {} |-> 0]

\* Map.prototype.set
MapSet(m, key, v) == [x \in DOMAIN m \cup {key} |-> IF x = key THEN v ELSE m[x]]

\* InitMap keeping the first record of an id: a later record with an id
\* already in the map is skipped.
RECURSIVE InitMapKeepFirst(_, _)
InitMapKeepFirst(us, k) ==
    IF k = 0 THEN EmptyMap
    ELSE LET m == InitMapKeepFirst(us, k - 1)
         IN  IF us[k].id \in DOMAIN m THEN m
             ELSE MapSet(m, us[k].id, UserNode(us[k]))

\* First pass of buildHierarchy over records 1..k: userMap.set(user.id, node).
RECURSIVE InitMap(_, _)
InitMap(us, k) ==
    IF k = 0 THEN EmptyMap
    ELSE MapSet(InitMap(us, k - 1), us[k].id, UserNode(us[k]))

\* LinkUser without the fallback of line 29: a record whose manager is not
\* found is left out of the forest.
LinkUserDropOrphan(s, user) ==
    IF ~Truthy(user.managerId)
    THEN [s EXCEPT !.roots = Append(@, user.id)]
    ELSE IF user.managerId \in DOMAIN s.userMap
         THEN [s EXCEPT !.userMap[user.managerId].children = Append(@, user.id)]
         ELSE s

\* LinkUser testing only managerId === undefined: 0 is looked up as an id.
LinkUserStrictUndefined(s, user) ==
    IF user.managerId = Undef
    THEN [s EXCEPT !.roots = Append(@, user.id)]
    ELSE IF user.managerId \in DOMAIN s.userMap
         THEN [s EXCEPT !.userMap[user.managerId].children = Append(@, user.id)]
         ELSE [s EXCEPT !.roots = Append(@, user.id)]

\* LinkUser with unshift in place of push.
LinkUserPrepend(s, user) ==
    IF ~Truthy(user.managerId)
    THEN [s EXCEPT !.roots = <<user.id>> \o @]
    ELSE IF user.managerId \in DOMAIN s.userMap
         THEN [s EXCEPT !.userMap[user.managerId].children = <<user.id>> \o @]
         ELSE [s EXCEPT !.roots = <<user.id>> \o @]

\* LinkUser treating a record that names itself as its manager as a root.
LinkUserSelfRoot(s, user) ==
    IF ~Truthy(user.managerId) \/ user.managerId = user.id
    THEN [s EXCEPT !.roots = Append(@, user.id)]
    ELSE IF user.managerId \in DOMAIN s.userMap
         THEN [s EXCEPT !.userMap[user.managerId].children = Append(@, user.id)]
         ELSE [s EXCEPT !.roots = Append(@, user.id)]

\* One step of the second pass: the node of the record goes to the roots or
\* to the children of the node of its manager.  A node is referred to by its
\* key in userMap.
LinkUser(s, user) ==
    IF ~Truthy(user.managerId)
    THEN [s EXCEPT !.roots = Append(@, user.id)]
    ELSE IF user.managerId \in DOMAIN s.userMap
         THEN [s EXCEPT !.userMap[user.managerId].children = Append(@, user.id)]
         ELSE [s EXCEPT !.roots = Append(@, user.id)]

\* Link in a single pass: the node of a record is created when the record
\* is reached, so a manager that comes later in the input is not found.
RECURSIVE LinkOnePass(_, _)
LinkOnePass(us, k) ==
    IF k = 0 THEN [roots |-> <<>>, userMap |-> EmptyMap]
    ELSE LET s == LinkOnePass(us, k - 1)
         IN  LinkUser([s EXCEPT !.userMap = MapSet(@, us[k].id, UserNode(us[k]))],
                      us[k])

\* Second pass of buildHierarchy over records 1..k.
RECURSIVE Link(_, _)
Link(us, k) ==
    IF k = 0 THEN [roots |-> <<>>, userMap |-> InitMap(us, Len(us))]
    ELSE LinkUser(Link(us, k - 1), us[k])

Range(s) == {s[k] : k \in 1..Len(s)}

\* The keys of the nodes that can be reached from the roots in at most n
\* steps through children.
RECURSIVE ReachIn(_, _, _)
ReachIn(roots, map, n) ==
    IF n = 0 THEN Range(roots)
    ELSE LET r == ReachIn(roots, map, n - 1)
         IN  r \cup UNION {Range(map[x].children) : x \in r}

\* buildHierarchy returns the array of roots: what the caller holds is the
\* roots and the nodes nested under them.
buildHierarchy(us) ==
    LET s == Link(us, Len(us))
        reach == ReachIn(s.roots, s.userMap, Cardinality(DOMAIN s.userMap))
    IN  [roots |-> s.roots, nodes |-> [x \in reach |-> s.userMap[x]]]

\* The records an array of object addresses holds.
Deref(arr, h) == [k \in 1..Len(arr) |-> h[arr[k]]]

\* Filter that also drops the direct reports of the node.
RECURSIVE FilterDropReports(_, _, _, _)
FilterDropReports(arr, h, node, k) ==
    IF k = 0 THEN <<>>
    ELSE IF h[arr[k]].id # node.id /\ h[arr[k]].managerId # node.id
         THEN Append(FilterDropReports(arr, h, node, k - 1), arr[k])
         ELSE FilterDropReports(arr, h, node, k - 1)

\* users.filter((user) => user.id !== node.id), over elements 1..k.
RECURSIVE Filter(_, _, _, _)
Filter(arr, h, node, k) ==
    IF k = 0 THEN <<>>
    ELSE IF h[arr[k]].id # node.id
         THEN Append(Filter(arr, h, node, k - 1), arr[k])
         ELSE Filter(arr, h, node, k - 1)

\* Reparent that always clears the manager: the reports of the removed
\* node become roots whatever the manager of the node.
ReparentToRoot(h, a, node) ==
    IF h[a].managerId = node.id
    THEN [h EXCEPT ![a].managerId = Undef]
    ELSE h

\* Reparent with = in place of === in the test: the assignment makes every
\* record a report of the node, and a node id that is not 0 passes the test.
ReparentAssign(h, a, node) ==
    IF node.id # 0
    THEN IF Truthy(node.managerId)
         THEN [h EXCEPT ![a].managerId = node.managerId]
         ELSE [h EXCEPT ![a].managerId = Undef]
    ELSE [h EXCEPT ![a].managerId = node.id]

\* The callback of .map: assigns to the managerId of the object itself.
Reparent(h, a, node) ==
    IF h[a].managerId = node.id
    THEN IF Truthy(node.managerId)
         THEN [h EXCEPT ![a].managerId = node.managerId]
         ELSE [h EXCEPT ![a].managerId = Undef]
    ELSE h

\* .map over elements 1..k of the filtered array: the heap afterwards.
RECURSIVE MapHeap(_, _, _, _)
MapHeap(arr, h, node, k) ==
    IF k = 0 THEN h
    ELSE Reparent(MapHeap(arr, h, node, k - 1), arr[k], node)

\* removeNode without the .map: the reports of the node keep its id as
\* their managerId.
removeNodeFilterOnly(arr, h, node) ==
    [out |-> Filter(arr, h, node, Len(arr)), heap |-> h]

\* removeNode(users, node): the array returned and the heap it leaves.
removeNode(arr, h, node) ==
    LET out == Filter(arr, h, node, Len(arr))
    IN  [out |-> out, heap |-> MapHeap(out, h, node, Len(out))]

(***************************************************************************)
(* The login: the Firebase service, the auth store and the login mutation. *)
(***************************************************************************)

\* The encoded credentials a login can submit.
Secrets == {1, 2}

\* The value null of user: UserInfo | null.
Null == [null |-> TRUE]

\* The outcomes of an async function: a thrown Error with its message, or
\* the value it resolves to.
Thrown(message) == [ok |-> FALSE, error |-> message]
Returned(value) == [ok |-> TRUE, value |-> value]

\* fetchAllData: one request; a response that is not ok throws.
fetchAllData(ok, data) ==
    IF ~ok THEN Thrown("Failed to fetch data from Firebase") ELSE Returned(data)

\* Array.prototype.find by id: the index of the first match, 0 for none.
Find(us, id) ==
    LET hits == {k \in 1..Len(us) : us[k].id = id}
    IN  IF hits = {} THEN 0 ELSE CHOOSE k \in hits : \A j \in hits : k <= j

\* validateUserAndFetchAll: one call of fetchAllData, then the two checks.
validateUserAndFetchAll(ok, data, secret) ==
    LET fetched == fetchAllData(ok, data)
    IN  IF ~fetched.ok THEN fetched
        ELSE LET userId == fetched.value.secrets[secret]
                 k == Find(fetched.value.users, userId)
             IN  IF ~Truthy(userId) THEN Thrown("Invalid credentials")
                 ELSE IF k = 0 THEN Thrown("User not found")
                 ELSE Returned([user |-> fetched.value.users[k],
                                users |-> fetched.value.users])

\* validateUser without the check of line 21: a falsy id is looked up.
validateUserAnyId(ok, data, secret) ==
    LET fetched == fetchAllData(ok, data)
    IN  IF ~fetched.ok THEN fetched
        ELSE LET userId == fetched.value.secrets[secret]
                 k == Find(fetched.value.users, userId)
             IN  IF k = 0 THEN Thrown("User not found")
                 ELSE Returned(fetched.value.users[k])

\* validateUser: one call of fetchAllData, then the two checks.
validateUser(ok, data, secret) ==
    LET fetched == fetchAllData(ok, data)
    IN  IF ~fetched.ok THEN fetched
        ELSE LET userId == fetched.value.secrets[secret]
                 k == Find(fetched.value.users, userId)
             IN  IF ~Truthy(userId) THEN Thrown("Invalid credentials")
                 ELSE IF k = 0 THEN Thrown("User not found")
                 ELSE Returned(fetched.value.users[k])

\* catch (err): err instanceof Error ? err.message : "Login failed".  A
\* thrown Error is an outcome with an error field.
CatchMessage(thrown) ==
    IF "error" \in DOMAIN thrown THEN thrown.error ELSE "Login failed"

\* persist, name "auth-storage": the item written after every set of the
\* auth store.
Persisted(state) == [state |-> state, version |-> 0]

\* The argument of login in onSuccess.
UserInfo(user) ==
    [email |-> user.email, firstName |-> user.firstName,
     lastName |-> user.lastName]

\* useAuthStore: the initial state, which is also the state clearAuth sets.
clearAuth == [user |-> Null, isAuthenticated |-> FALSE]
setAuth(user) == [user |-> user, isAuthenticated |-> TRUE]

\* useActionState(action, null): no action is running and the state is null.
IdleForm == [status |-> "idle", secret |-> 0, state |-> Null]

\* A mounted UserTree of a node without children: useState(true), nothing
\* to toggle.
LeafItem == [functional |-> FALSE, children |-> 0, isExpanded |-> TRUE,
             queue |-> <<>>, calls |-> 0]

\* The state of a mutation that has not been called, and of the Hierarchy
\* page before its query has a result.
IdleMutation == [status |-> "idle", step |-> 0, secret |-> 0]
NoPage == [loaded |-> FALSE, users |-> <<>>]

(***************************************************************************)
(* UserCard.                                                               *)
(***************************************************************************)

\* Names are sequences of characters.
Names == {<<"J", "o">>, <<"j", "o">>, <<"D", "o">>, <<"d">>}
\* photo?: string.  Undef is the absent photo, 0 the empty string, which is
\* falsy as well, 1 and 2 are URLs.
Photos == {Undef, 0, 1, 2}
CardUsers == [firstName : Names, lastName : Names, photo : Photos]

toUpperCase(c) == CASE c = "j" -> "J" [] c = "d" -> "D" [] c = "o" -> "O" [] OTHER -> c

\* getInitials: the upper-cased first characters of the two names.
getInitials(firstName, lastName) ==
    <<toUpperCase(Head(firstName)), toUpperCase(Head(lastName))>>

\* The avatar UserCard renders: the img element or the div of the initials.
UserCard(user, error) ==
    IF Truthy(user.photo) /\ ~error
    THEN [tag |-> "img", src |-> user.photo, alt |-> <<>>, ariaHidden |-> TRUE]
    ELSE [tag |-> "div", text |-> getInitials(user.firstName, user.lastName),
          ariaHidden |-> TRUE]

VARIABLES
    heap,       \* object address -> User record
    cache,      \* the array of users the data source keeps
    users,      \* useUsersStore: users
    hierarchy,  \* useUsersStore: hierarchy
    built,      \* the records passed to the last call of buildHierarchy
    firebase,   \* the data the Firebase endpoint serves: secrets and users
    mutation,   \* useLoginMutation: status, position in onSuccess, variables
    auth,       \* useAuthStore: user and isAuthenticated
    queryCache, \* the React Query cache: query key -> data
    route,      \* the current location of the router
    log,        \* the effects of the current login, in the order they happen
    fetches,    \* the number of requests sent to the Firebase endpoint
    page,       \* the Hierarchy page: the result of its ['users'] query
    cardUser,   \* UserCard: the user prop
    imageError, \* UserCard: the imageError state
    form,       \* Login: the form action, its secret and the state it returned
    storage,    \* localStorage: the item "auth-storage"
    item        \* UserTree: one mounted node of the tree

storeVars == <<heap, cache, users, hierarchy, built>>
loginVars == <<firebase, mutation, auth, queryCache, route, log, fetches, page>>
cardVars == <<cardUser, imageError>>
pageVars == <<form, storage, item>>
vars == <<storeVars, loginVars, cardVars, pageVars>>

EmptyForest == [roots |-> <<>>, nodes |-> EmptyMap]

\* The parts of the application at rest: an empty store, nobody logged in
\* and nothing fetched, a card that shows the initials of its user.
StoreRest ==
    /\ heap = <<>>
    /\ cache = <<>>
    /\ users = <<>>
    /\ hierarchy = EmptyForest
    /\ built = <<>>

LoginRest ==
    /\ firebase = [secrets |-> [s \in Secrets |-> Undef], users |-> <<>>]
    /\ mutation = IdleMutation
    /\ auth = clearAuth
    /\ queryCache = EmptyMap
    /\ route = "/"
    /\ log = <<>>
    /\ fetches = 0
    /\ page = NoPage

CardRest ==
    /\ cardUser = [firstName |-> <<"d">>, lastName |-> <<"d">>, photo |-> Undef]
    /\ imageError = FALSE

PageRest ==
    /\ form = IdleForm
    /\ storage = Null
    /\ item = LeafItem

\* The relations the data source can deliver: any records, in any order.
\* The store starts with users: [] and hierarchy: [].
Init ==
    /\ \E n \in 0..MaxLen :
         /\ cache = [k \in 1..n |-> k]
         /\ \E ids \in [1..n -> Ids], mgrs \in [1..n -> Mgrs] :
              heap = [k \in 1..n |-> User(k, ids[k], mgrs[k])]
    /\ users = <<>>
    /\ hierarchy = EmptyForest
    /\ built = <<>>
    /\ LoginRest
    /\ CardRest
    /\ PageRest

\* setUsers: (users) => set({ users })
SetUsers ==
    /\ users' = cache
    /\ UNCHANGED <<heap, cache, hierarchy, built, loginVars, cardVars, pageVars>>

\* setHierarchy: () => set({ hierarchy: buildHierarchy(get().users) })
SetHierarchy ==
    /\ hierarchy' = buildHierarchy(Deref(users, heap))
    /\ built' = Deref(users, heap)
    /\ UNCHANGED <<heap, cache, users, loginVars, cardVars, pageVars>>

\* removeUser storing the new users without rebuilding the hierarchy.
RemoveUserKeepForest(node) ==
    LET first == removeNode(users, heap, node)
    IN  /\ users' = first.out
        /\ heap' = first.heap
        /\ UNCHANGED <<cache, hierarchy, built, loginVars, cardVars, pageVars>>

\* removeUser rebuilding the hierarchy without storing the new users.
RemoveUserKeepUsers(node) ==
    LET first == removeNode(users, heap, node)
    IN  /\ hierarchy' = buildHierarchy(Deref(first.out, first.heap))
        /\ built' = Deref(first.out, first.heap)
        /\ heap' = first.heap
        /\ UNCHANGED <<cache, users, loginVars, cardVars, pageVars>>

\* removeUser: the two properties of the object literal are evaluated in
\* order, each with its own call of removeNode on get().users.  first is the
\* call in the hierarchy property, second the call in the users property.
RemoveUser(node) ==
    LET first == removeNode(users, heap, node)
        second == removeNode(users, first.heap, node)
    IN  /\ users' = second.out
        /\ heap' = second.heap
        /\ built' = Deref(first.out, first.heap)
        /\ hierarchy' = buildHierarchy(Deref(first.out, first.heap))
        /\ UNCHANGED <<cache, loginVars, cardVars, pageVars>>

Next ==
    \/ SetUsers
    \/ SetHierarchy
    \/ \E node \in Nodes : RemoveUser(node)

Spec == Init /\ [][Next]_vars

\* The same behaviours of the store, for the properties of removeNode.
RemoverSpec == Init /\ [][Next]_vars

\* The same behaviours of the store, for the properties of the store as a
\* whole and of the builder on every input.
StoreSpec == Init /\ [][Next]_vars

\* The nodes the tree on screen offers for removal: the nodes of the stored
\* hierarchy, each with the id and the managerId it carries.
TreeNodes ==
    {[id |-> hierarchy.nodes[x].id, managerId |-> hierarchy.nodes[x].managerId] :
       x \in DOMAIN hierarchy.nodes}

\* The store as the tree uses it: the Remove User button of a card calls
\* removeUser with the node the card shows.
TreeNext ==
    \/ SetUsers
    \/ SetHierarchy
    \/ \E node \in TreeNodes : RemoveUser(node)

TreeSpec == Init /\ [][TreeNext]_vars

\* The managerIds of a data source that also holds a reference to a record
\* it does not have: the least number that is not an id of Ids.
OrphanMgrs == Mgrs \cup {Cardinality(Ids)}

\* The relations such a data source can deliver, the store at rest.
OrphanInit ==
    /\ \E n \in 0..MaxLen :
         /\ cache = [k \in 1..n |-> k]
         /\ \E ids \in [1..n -> Ids], mgrs \in [1..n -> OrphanMgrs] :
              heap = [k \in 1..n |-> User(k, ids[k], mgrs[k])]
    /\ users = <<>>
    /\ hierarchy = EmptyForest
    /\ built = <<>>
    /\ LoginRest
    /\ CardRest
    /\ PageRest

\* The store over these relations, removeUser called from the cards of the
\* stored hierarchy.
OrphanSpec == OrphanInit /\ [][TreeNext]_vars

-----------------------------------------------------------------------------
(***************************************************************************)
(* The login through useLoginMutation and the Hierarchy page.              *)
(***************************************************************************)

\* Most requests one behaviour sends to the Firebase endpoint.
MaxFetches == 2

\* Any secrets and users on the server; the application starts on the
\* login page with nobody logged in and an empty query cache.
LoginInit ==
    /\ \E n \in 0..MaxLen :
         \E ids \in [1..n -> Ids], secrets \in [Secrets -> Mgrs] :
           firebase = [secrets |-> secrets,
                       users |-> [k \in 1..n |-> User(k, ids[k], Undef)]]
    /\ mutation = IdleMutation
    /\ auth = clearAuth
    /\ queryCache = EmptyMap
    /\ route = "/"
    /\ log = <<>>
    /\ fetches = 0
    /\ page = NoPage
    /\ StoreRest
    /\ CardRest
    /\ PageRest

\* What mutationFn resolved to for the secret of the running mutation.
MutationData == validateUserAndFetchAll(TRUE, firebase, mutation.secret).value

\* mutate({ email, password }): mutationFn encodes the credentials and
\* calls validateUserAndFetchAll, which sends the one request.
Mutate(secret) ==
    /\ route = "/"
    /\ mutation.status # "pending"
    /\ fetches < MaxFetches
    /\ mutation' = [status |-> "pending", step |-> 0, secret |-> secret]
    /\ fetches' = fetches + 1
    /\ log' = <<"fetch">>
    /\ UNCHANGED <<firebase, auth, queryCache, route, page, storeVars, cardVars, pageVars>>

\* The promise of mutationFn settles: it rejects, and onSuccess is not
\* called, or it resolves, and onSuccess starts.
Settle(ok) ==
    /\ mutation.status = "pending"
    /\ mutation.step = 0
    /\ mutation' =
         IF validateUserAndFetchAll(ok, firebase, mutation.secret).ok
         THEN [mutation EXCEPT !.step = 1]
         ELSE [mutation EXCEPT !.status = "error"]
    /\ UNCHANGED <<firebase, auth, queryCache, route, log, fetches, page,
                   storeVars, cardVars, pageVars>>

\* onSuccess, first statement: login({ email, firstName, lastName }).
OnSuccessLogin ==
    /\ mutation.status = "pending"
    /\ mutation.step = 1
    /\ auth' = setAuth(UserInfo(MutationData.user))
    /\ storage' = Persisted(auth')
    /\ log' = Append(log, "authenticate")
    /\ mutation' = [mutation EXCEPT !.step = 2]
    /\ UNCHANGED <<firebase, queryCache, route, fetches, page, storeVars, cardVars,
                   form, item>>

\* onSuccess without its second statement: the cache is not populated.
OnSuccessSkipQueryData ==
    /\ mutation.status = "pending"
    /\ mutation.step = 2
    /\ log' = Append(log, "setQueryData")
    /\ mutation' = [mutation EXCEPT !.step = 3]
    /\ UNCHANGED <<firebase, auth, queryCache, route, fetches, page, storeVars,
                   cardVars, pageVars>>

\* onSuccess, second statement: queryClient.setQueryData(["users"], data.users).
OnSuccessSetQueryData ==
    /\ mutation.status = "pending"
    /\ mutation.step = 2
    /\ queryCache' = MapSet(queryCache, "users", MutationData.users)
    /\ log' = Append(log, "setQueryData")
    /\ mutation' = [mutation EXCEPT !.step = 3]
    /\ UNCHANGED <<firebase, auth, route, fetches, page, storeVars, cardVars, pageVars>>

\* onSuccess, third statement: navigate("/hierarchy"); the mutation succeeds.
OnSuccessNavigate ==
    /\ mutation.status = "pending"
    /\ mutation.step = 3
    /\ route' = "/hierarchy"
    /\ log' = Append(log, "navigate")
    /\ mutation' = [mutation EXCEPT !.status = "success"]
    /\ UNCHANGED <<firebase, auth, queryCache, fetches, page, storeVars, cardVars, pageVars>>

\* useUsers on the Hierarchy page: the data of ["users"] is taken from the
\* cache when the cache has it, and fetched with fetchUsers when not.
UseUsers ==
    /\ route = "/hierarchy"
    /\ ~page.loaded
    /\ IF "users" \in DOMAIN queryCache
       THEN /\ page' = [loaded |-> TRUE, users |-> queryCache["users"]]
            /\ UNCHANGED <<queryCache, fetches>>
       ELSE /\ queryCache' = MapSet(queryCache, "users", firebase.users)
            /\ page' = [loaded |-> TRUE, users |-> firebase.users]
            /\ fetches' = fetches + 1
    /\ UNCHANGED <<firebase, mutation, auth, route, log, storeVars, cardVars, pageVars>>

\* logout with clearAuth() before signOut(): the item clearAuth persists
\* is removed again.
LogoutClearFirst ==
    /\ route = "/hierarchy"
    /\ auth' = clearAuth
    /\ storage' = Null
    /\ route' = "/"
    /\ mutation' = IdleMutation
    /\ form' = IdleForm
    /\ page' = NoPage
    /\ UNCHANGED <<firebase, queryCache, log, fetches, storeVars, cardVars, item>>

\* logout: signOut(); clearAuth(); navigate("/").  signOut removes the item
\* "auth-storage", clearAuth sets the state, which persist writes to the
\* item again.  The login page is mounted again, with a mutation that has
\* not been called and a form in its initial state.
Logout ==
    /\ route = "/hierarchy"
    /\ auth' = clearAuth
    /\ storage' = Persisted(auth')
    /\ route' = "/"
    /\ mutation' = IdleMutation
    /\ form' = IdleForm
    /\ page' = NoPage
    /\ UNCHANGED <<firebase, queryCache, log, fetches, storeVars, cardVars, item>>

LoginNext ==
    \/ \E secret \in Secrets : Mutate(secret)
    \/ \E ok \in BOOLEAN : Settle(ok)
    \/ OnSuccessLogin
    \/ OnSuccessSetQueryData
    \/ OnSuccessNavigate
    \/ UseUsers
    \/ Logout

LoginSpec == LoginInit /\ [][LoginNext]_vars

-----------------------------------------------------------------------------
(***************************************************************************)
(* The Login page with its form action, and the auth store.                *)
(***************************************************************************)

\* The form is submitted: the action encodes the credentials and awaits
\* validateUser, which sends the one request.
FormSubmit(secret) ==
    /\ route = "/"
    /\ form.status # "pending"
    /\ fetches < MaxFetches
    /\ form' = [form EXCEPT !.status = "pending", !.secret = secret]
    /\ fetches' = fetches + 1
    /\ UNCHANGED <<firebase, mutation, auth, queryCache, route, log, page,
                   storage, item, storeVars, cardVars>>

\* The form action that returns the message of a thrown error after it has
\* logged the user of the first record in.
FormResolveLoginAnyway(ok) ==
    /\ form.status = "pending"
    /\ LET outcome == validateUser(ok, firebase, form.secret)
       IN  IF outcome.ok
           THEN /\ auth' = setAuth(UserInfo(outcome.value))
                /\ storage' = Persisted(auth')
                /\ route' = "/hierarchy"
                /\ log' = log \o <<"authenticate", "navigate">>
                /\ form' = [form EXCEPT !.status = "settled", !.state = Null]
           ELSE /\ auth' = setAuth([email |-> 0, firstName |-> 0, lastName |-> 0])
                /\ storage' = Persisted(auth')
                /\ form' = [form EXCEPT !.status = "settled",
                                        !.state = [message |-> CatchMessage(outcome)]]
                /\ UNCHANGED <<route, log>>
    /\ UNCHANGED <<firebase, mutation, queryCache, fetches, page, item,
                   storeVars, cardVars>>

\* The response arrives and the action runs to its end: login(...),
\* navigate("/hierarchy") and return null when validateUser resolves, the
\* message of the error as the new state when it throws.
FormResolve(ok) ==
    /\ form.status = "pending"
    /\ LET outcome == validateUser(ok, firebase, form.secret)
       IN  IF outcome.ok
           THEN /\ auth' = setAuth(UserInfo(outcome.value))
                /\ storage' = Persisted(auth')
                /\ route' = "/hierarchy"
                /\ log' = log \o <<"authenticate", "navigate">>
                /\ form' = [form EXCEPT !.status = "settled", !.state = Null]
           ELSE /\ form' = [form EXCEPT !.status = "settled",
                                        !.state = [message |-> CatchMessage(outcome)]]
                /\ UNCHANGED <<auth, storage, route, log>>
    /\ UNCHANGED <<firebase, mutation, queryCache, fetches, page, item,
                   storeVars, cardVars>>

\* clearAuth: () => set({ user: null, isAuthenticated: false }).
ClearAuth ==
    /\ auth' = clearAuth
    /\ storage' = Persisted(auth')
    /\ UNCHANGED <<firebase, mutation, queryCache, route, log, fetches, page,
                   form, item, storeVars, cardVars>>

FormNext ==
    \/ \E secret \in Secrets : FormSubmit(secret)
    \/ \E ok \in BOOLEAN : FormResolve(ok)
    \/ ClearAuth
    \/ Logout

FormSpec == LoginInit /\ [][FormNext]_vars

-----------------------------------------------------------------------------
(***************************************************************************)
(* A mounted UserCard.                                                     *)
(***************************************************************************)

\* The card is mounted with any user; useState(false).
CardInit ==
    /\ cardUser \in CardUsers
    /\ imageError = FALSE
    /\ StoreRest
    /\ LoginRest
    /\ PageRest

\* onError of the img element: setImageError(true).
HandleImageError ==
    /\ UserCard(cardUser, imageError).tag = "img"
    /\ imageError' = TRUE
    /\ UNCHANGED <<cardUser, storeVars, loginVars, pageVars>>

\* The parent renders the card with another user; the state is kept.
Rerender(user) ==
    /\ user # cardUser
    /\ cardUser' = user
    /\ UNCHANGED <<imageError, storeVars, loginVars, pageVars>>

CardNext ==
    \/ HandleImageError
    \/ \E user \in CardUsers : Rerender(user)

CardSpec == CardInit /\ [][CardNext]_vars

-----------------------------------------------------------------------------
(***************************************************************************)
(* A mounted UserTree node.                                                *)
(***************************************************************************)

\* Most invocations of toggleExpand in one behaviour.
MaxCalls == 6

\* A state update in the queue of the component: a value to set, or the
\* updater (prev) => !prev.
SetTo(value) == [set |-> value]
Flip == [flip |-> TRUE]
ApplyUpdate(state, update) ==
    IF "set" \in DOMAIN update THEN update.set ELSE ~state

\* The state a render computes from the state of the last render and the
\* updates queued since, in the order they were queued.
RECURSIVE Reduce(_, _)
Reduce(state, queue) ==
    IF queue = <<>> THEN state
    ELSE Reduce(ApplyUpdate(state, Head(queue)), Tail(queue))

\* {hasChildren && isExpanded && (<div role='group'>...)}
GroupRendered(it) == it.children > 0 /\ it.isExpanded

\* The node is mounted with any number of children, in either version of
\* the component; useState(true).
ItemInit ==
    /\ item \in [functional : BOOLEAN, children : 0..MaxLen, isExpanded : {TRUE},
                 queue : {<<>>}, calls : {0}]
    /\ form = IdleForm
    /\ storage = Null
    /\ StoreRest
    /\ LoginRest
    /\ CardRest

\* toggleExpand of UserTree.tsx: setIsExpanded(!isExpanded), with the
\* isExpanded of the render the handler was created in.
ToggleExpand ==
    /\ ~item.functional
    /\ item.children > 0
    /\ item.calls < MaxCalls
    /\ item' = [item EXCEPT !.queue = Append(@, SetTo(~item.isExpanded)),
                            !.calls = @ + 1]
    /\ UNCHANGED <<form, storage, storeVars, loginVars, cardVars>>

\* toggleExpand with the functional update: setIsExpanded((prev) => !prev).
ToggleExpandFunctional ==
    /\ item.functional
    /\ item.children > 0
    /\ item.calls < MaxCalls
    /\ item' = [item EXCEPT !.queue = Append(@, Flip), !.calls = @ + 1]
    /\ UNCHANGED <<form, storage, storeVars, loginVars, cardVars>>

\* The component renders again: the queued updates are applied.
RenderItem ==
    /\ item.queue # <<>>
    /\ item' = [item EXCEPT !.isExpanded = Reduce(@, item.queue), !.queue = <<>>]
    /\ UNCHANGED <<form, storage, storeVars, loginVars, cardVars>>

ItemNext ==
    \/ ToggleExpand
    \/ ToggleExpandFunctional
    \/ RenderItem

ItemSpec == ItemInit /\ [][ItemNext]_vars

-----------------------------------------------------------------------------
(***************************************************************************)
(* Vocabulary of the properties: relations and forests.                    *)
(***************************************************************************)

\* The ids of the records of a relation.
IdsOf(rel) == {rel[k].id : k \in 1..Len(rel)}

\* Each id appears at most once in the relation.
UniqueIds(rel) == \A j, k \in 1..Len(rel) : rel[j].id = rel[k].id => j = k

\* The ids of the records a record with managerId m refers to.
RefersTo(rel, m) == IF m = Undef THEN {} ELSE {m} \cap IdsOf(rel)

\* Following managerId references from the record with id x for at most n
\* steps ends at a record that refers to no record of the relation.
RECURSIVE EndsIn(_, _, _)
EndsIn(rel, x, n) ==
    IF n = 0 THEN FALSE
    ELSE \A k \in 1..Len(rel) :
           rel[k].id = x =>
             \A p \in RefersTo(rel, rel[k].managerId) : EndsIn(rel, p, n - 1)

\* No manager cycle: no chain of managerId references returns to its start
\* (a record that is its own manager is a cycle of length one).
NoCycle(rel) == \A x \in IdsOf(rel) : EndsIn(rel, x, Len(rel))

\* The record has a manager the builder resolves: a managerId that is not
\* falsy and is the id of a record of the relation.
HasManager(rel, k) ==
    Truthy(rel[k].managerId) /\ rel[k].managerId \in IdsOf(rel)

\* The ids of the records of rel that satisfy Test, in the order of rel.
IdsWhere(rel, Test(_)) ==
    LET sel == SelectSeq(rel, Test) IN [k \in 1..Len(sel) |-> sel[k].id]

\* How often x occurs in the sequence s.
Occurrences(s, x) == Cardinality({k \in 1..Len(s) : s[k] = x})

\* The number of nodes of the forest h under the nodes listed in s, each
\* counted as often as it is nested, down to depth fuel.
RECURSIVE CountSeq(_, _, _)
CountSeq(h, s, fuel) ==
    IF s = <<>> THEN 0
    ELSE (IF fuel = 0 THEN 1
          ELSE 1 + CountSeq(h, h.nodes[Head(s)].children, fuel - 1))
         + CountSeq(h, Tail(s), fuel)

\* The total node count of a forest built from n records, summed
\* recursively from the roots.  A forest of n nodes without a cycle has no
\* path longer than n, so the depth is no restriction for it; a forest with
\* a cycle below a root counts more than n.
NodeCount(h, n) == CountSeq(h, h.roots, n)

\* The node with key x is among the roots of h or in the children of a node.
Placed(h, x) ==
    \/ x \in Range(h.roots)
    \/ \E q \in DOMAIN h.nodes : x \in Range(h.nodes[q].children)

\* The node with key x is a child of the node with key p, once, and is
\* nowhere else in the forest h.
ChildOnlyOf(h, x, p) ==
    /\ p \in DOMAIN h.nodes
    /\ Occurrences(h.nodes[p].children, x) = 1
    /\ x \notin Range(h.roots)
    /\ \A q \in DOMAIN h.nodes \ {p} : x \notin Range(h.nodes[q].children)

-----------------------------------------------------------------------------
(***************************************************************************)
(* buildHierarchy                                                          *)
(***************************************************************************)

\* C1 as stated: for every input relation, manager cycles included, the
\* forest contains, counted recursively from the roots, exactly as many
\* nodes as the input has records.
C1_CompletenessAllInputs == NodeCount(hierarchy, Len(built)) = Len(built)

\* C1: for every input relation with unique ids and no manager cycle
\* (dangling manager references allowed), the forest returned by
\* buildHierarchy contains, counted recursively from the roots, exactly as
\* many nodes as the input has records.
C1_Completeness ==
    (UniqueIds(built) /\ NoCycle(built))
        => NodeCount(hierarchy, Len(built)) = Len(built)

\* A forest built from records with unique ids and no cycle, with a
\* dangling manager reference and a nested node.
C1_Witness ==
    /\ UniqueIds(built) /\ NoCycle(built) /\ Len(built) >= 2
    /\ \E k \in 1..Len(built) :
         Truthy(built[k].managerId) /\ built[k].managerId \notin IdsOf(built)
    /\ \E x \in DOMAIN hierarchy.nodes : hierarchy.nodes[x].children # <<>>
    /\ NodeCount(hierarchy, Len(built)) = Len(built)

\* C2 as stated: every record whose managerId equals the id p of some
\* record is in the children of p's node and nowhere else.
C2_ParentChildAllInputs ==
    \A k \in 1..Len(built) :
        built[k].managerId \in IdsOf(built)
            => ChildOnlyOf(hierarchy, built[k].id, built[k].managerId)

\* C2: for an input relation with unique ids and no manager cycle, every
\* record whose managerId is not falsy and equals the id p of some record
\* has its node in the children of p's node and nowhere else: not among the
\* roots, not under any other node.
C2_ParentChild ==
    (UniqueIds(built) /\ NoCycle(built))
        => \A k \in 1..Len(built) :
             HasManager(built, k)
                 => ChildOnlyOf(hierarchy, built[k].id, built[k].managerId)

\* A chain of three records in which a record precedes its manager in the
\* input.
C2_Witness ==
    /\ UniqueIds(built) /\ NoCycle(built) /\ Len(built) = 3
    /\ \E j, k \in 1..Len(built) :
         /\ j < k /\ HasManager(built, j) /\ built[j].managerId = built[k].id
         /\ HasManager(built, k)
         /\ ChildOnlyOf(hierarchy, built[j].id, built[k].id)

\* C3: a record whose managerId is absent (undefined or falsy) or matches
\* no record id of the input is a root-level node of the forest; the
\* builder has no error outcome.
C3_RootRule ==
    \A k \in 1..Len(built) :
        (~Truthy(built[k].managerId) \/ built[k].managerId \notin IdsOf(built))
            => built[k].id \in Range(hierarchy.roots)

\* A forest with a root that has a dangling manager reference and a root
\* whose managerId is the falsy 0, the id of a record of the input.
C3_Witness ==
    \E j, k \in 1..Len(built) :
        /\ Truthy(built[j].managerId) /\ built[j].managerId \notin IdsOf(built)
        /\ built[j].id \in Range(hierarchy.roots)
        /\ built[k].managerId = 0 /\ 0 \in IdsOf(built)
        /\ built[k].id \in Range(hierarchy.roots)

\* C4: the roots are the input restricted to the records treated as roots,
\* and the children of every node are the input restricted to the records
\* attached to that node, both in input order.
C4_OrderPreservation ==
    /\ hierarchy.roots =
         IdsWhere(built, LAMBDA r : ~(Truthy(r.managerId)
                                       /\ r.managerId \in IdsOf(built)))
    /\ \A x \in DOMAIN hierarchy.nodes :
         hierarchy.nodes[x].children =
           IdsWhere(built, LAMBDA r : Truthy(r.managerId) /\ r.managerId = x)

\* A node with two children that are not in the order of their ids, under
\* a root.
C4_Witness ==
    \E x \in DOMAIN hierarchy.nodes :
        /\ Len(hierarchy.nodes[x].children) = 2
        /\ hierarchy.nodes[x].children[1] > hierarchy.nodes[x].children[2]
        /\ hierarchy.roots = <<x>>

-----------------------------------------------------------------------------
(***************************************************************************)
(* removeNode.  R is the relation the store holds, Deref(users, heap); the *)
(* properties are stated of removeNode(R, t) for every node t.             *)
(***************************************************************************)

\* The manager removeNode gives to the reports of node t.
NewManager(t) == IF Truthy(t.managerId) THEN t.managerId ELSE Undef

\* The node t is a record of R: it has the id and the managerId of one.
NodeOf(rel, t) ==
    \E k \in 1..Len(rel) : rel[k].id = t.id /\ rel[k].managerId = t.managerId

\* The sequence s without its element k.
Without(s, k) == SubSeq(s, 1, k - 1) \o SubSeq(s, k + 1, Len(s))

\* C5: in the relation returned by removeNode(R, t), every record whose
\* managerId equalled t.id has the managerId of t, or undefined when t had
\* no manager (a managerId that is undefined or falsy).
C5_Reparenting ==
    \A t \in Nodes :
        LET r == removeNode(users, heap, t)
        IN  \A k \in 1..Len(r.out) :
              heap[r.out[k]].managerId = t.id
                  => r.heap[r.out[k]].managerId = NewManager(t)

\* A removal that hands a report of t to the manager of t, and one that
\* makes a report of a node without manager a root.
C5_Witness ==
    /\ \E t \in Nodes :
         LET r == removeNode(users, heap, t)
         IN  /\ NodeOf(Deref(users, heap), t) /\ Truthy(t.managerId)
             /\ \E k \in 1..Len(r.out) :
                  /\ heap[r.out[k]].managerId = t.id
                  /\ r.heap[r.out[k]].managerId = t.managerId
    /\ \E t \in Nodes :
         LET r == removeNode(users, heap, t)
         IN  /\ NodeOf(Deref(users, heap), t) /\ t.managerId = Undef
             /\ \E k \in 1..Len(r.out) :
                  /\ heap[r.out[k]].managerId = t.id
                  /\ r.heap[r.out[k]].managerId = Undef

\* C6: for a relation R with unique ids that contains the target t,
\* removeNode(R, t) returns a relation with exactly one record fewer and no
\* record with the id of t, the other records in the order they have in R.
C6_Removal ==
    \A t \in Nodes :
        LET R == Deref(users, heap)
            r == removeNode(users, heap, t)
        IN  (UniqueIds(R) /\ t.id \in IdsOf(R))
              => /\ Len(r.out) = Len(users) - 1
                 /\ t.id \notin IdsOf(Deref(r.out, r.heap))
                 /\ \E k \in 1..Len(users) :
                      heap[users[k]].id = t.id /\ r.out = Without(users, k)

\* The removal of the middle one of three records with unique ids.
C6_Witness ==
    /\ Len(users) = 3 /\ UniqueIds(Deref(users, heap))
    /\ \E t \in Nodes :
         /\ heap[users[2]].id = t.id
         /\ removeNode(users, heap, t).out = <<users[1], users[3]>>

\* C7: in the relation returned by removeNode(R, t), a record whose
\* managerId was not t.id is identical in all fields to the same record of
\* R, and a re-parented record differs from its original only in managerId.
C7_Frame ==
    \A t \in Nodes :
        LET r == removeNode(users, heap, t)
        IN  \A k \in 1..Len(r.out) :
              LET a == r.out[k]
              IN  /\ heap[a].managerId # t.id => r.heap[a] = heap[a]
                  /\ r.heap[a] = [heap[a] EXCEPT !.managerId = r.heap[a].managerId]

\* A removal that re-parents one record and leaves another record, which
\* has a manager of its own, as it was.
C7_Witness ==
    \E t \in Nodes :
        LET r == removeNode(users, heap, t)
        IN  /\ t.id \in IdsOf(Deref(users, heap))
            /\ \E j, k \in 1..Len(r.out) :
                 /\ heap[r.out[j]].managerId = t.id
                 /\ r.heap[r.out[j]] # heap[r.out[j]]
                 /\ Truthy(heap[r.out[k]].managerId)
                 /\ heap[r.out[k]].managerId # t.id
                 /\ r.heap[r.out[k]] = heap[r.out[k]]

\* C8: when no record of R has the id of the node, removeNode returns a
\* relation deep-equal to R: nothing is removed and no managerId changes,
\* also when records of R carry a dangling managerId equal to that id.
C8_NoOpRemoval ==
    \A t \in Nodes :
        LET r == removeNode(users, heap, t)
        IN  t.id \notin IdsOf(Deref(users, heap))
              => Deref(r.out, r.heap) = Deref(users, heap)

\* C9: removeNode does not mutate its input: after removeNode(R, t) the
\* record objects of R are as before the call, so no call of removeUser
\* changes a record object, and the array the data source handed to the
\* store holds the records it held.
C9_InputNotMutated == [][Deref(cache, heap') = Deref(cache, heap)]_vars

\* The builder's view of a removal: the forest of the returned relation.
Rebuilt(t) ==
    LET r == removeNode(users, heap, t)
    IN  buildHierarchy(Deref(r.out, r.heap))

\* Remove then rebuild, for the relation R and the node t of R: t is not in
\* the rebuilt forest, and every former report of t is a child of the
\* manager of t when t has one in R, a root otherwise.
RemoveThenRebuild(R, t) ==
    LET h == Rebuilt(t)
    IN  /\ t.id \notin DOMAIN h.nodes
        /\ ~Placed(h, t.id)
        /\ \A k \in 1..Len(R) :
             (R[k].managerId = t.id /\ R[k].id # t.id)
               => IF Truthy(t.managerId) /\ t.managerId \in IdsOf(R)
                  THEN /\ t.managerId \in DOMAIN h.nodes
                       /\ R[k].id \in Range(h.nodes[t.managerId].children)
                  ELSE R[k].id \in Range(h.roots)

\* C10 as stated: for every relation R with unique ids and target t in R.
C10_RemoveThenRebuildAllInputs ==
    \A t \in Nodes :
        LET R == Deref(users, heap)
        IN  (UniqueIds(R) /\ NodeOf(R, t)) => RemoveThenRebuild(R, t)

\* C10: for a relation R with unique ids and no manager cycle and a target
\* t in R, in buildHierarchy(removeNode(R, t)) every former report of t is
\* a direct child of the manager of t when the managerId of t is not falsy
\* and is the id of a record of R, and is a root otherwise; t is nowhere in
\* the rebuilt forest.
C10_RemoveThenRebuild ==
    \A t \in Nodes :
        LET R == Deref(users, heap)
        IN  (UniqueIds(R) /\ NoCycle(R) /\ NodeOf(R, t))
              => RemoveThenRebuild(R, t)

\* The removal of the middle of a chain of three, and the removal of a root
\* that has a report.
C10_Witness ==
    LET R == Deref(users, heap)
    IN  /\ UniqueIds(R) /\ NoCycle(R) /\ Len(R) = 3
        /\ \E t \in Nodes :
             /\ NodeOf(R, t) /\ HasManager(R, CHOOSE k \in 1..3 : R[k].id = t.id)
             /\ \E k \in 1..3 :
                  /\ R[k].managerId = t.id
                  /\ R[k].id \in Range(Rebuilt(t).nodes[t.managerId].children)
        /\ \E t \in Nodes :
             /\ NodeOf(R, t) /\ t.managerId = Undef
             /\ \E k \in 1..3 :
                  /\ R[k].managerId = t.id /\ Truthy(t.id)
                  /\ R[k].id \in Range(Rebuilt(t).roots)

-----------------------------------------------------------------------------
(***************************************************************************)
(* The store and the builder on every input.                               *)
(***************************************************************************)

\* C11 (as claimed): in every state the store reaches by setUsers,
\* setHierarchy and removeUser, hierarchy equals buildHierarchy(users).
C11_DerivedViewAlways == hierarchy = buildHierarchy(Deref(users, heap))

\* C11: hierarchy equals buildHierarchy(users) in the initial state and
\* right after every setHierarchy and every removeUser; setUsers replaces
\* the users and leaves the hierarchy as it was, the forest of the earlier
\* relation, until setHierarchy is called.
C11_DerivedView ==
    /\ hierarchy = buildHierarchy(Deref(users, heap))
    /\ [][/\ \/ hierarchy' = buildHierarchy(Deref(users', heap'))
             \/ ~(SetHierarchy \/ \E node \in Nodes : RemoveUser(node))
          /\ SetUsers => hierarchy' = hierarchy]_vars

\* A removal has shortened the users, and the stored hierarchy is the
\* non-empty forest of the users that remain.
C11_Witness ==
    /\ users # <<>>
    /\ Len(users) < Len(cache)
    /\ hierarchy.roots # <<>>
    /\ hierarchy = buildHierarchy(Deref(users, heap))

\* The sum of the lengths of the children of the nodes with keys in S.
RECURSIVE ChildCount(_, _)
ChildCount(map, S) ==
    IF S = {} THEN 0
    ELSE LET x == CHOOSE y \in S : TRUE
         IN  Len(map[x].children) + ChildCount(map, S \ {x})

\* C13: buildHierarchy completes without an error on every finite input,
\* with dangling managerIds, self-managed records, manager cycles and
\* duplicate ids: the first pass leaves a node for every id of the input,
\* the second pass handles each record once and places its node once, in
\* the roots or in the children of a node that exists, and the roots are
\* returned.
C13_Terminates ==
    LET s == Link(built, Len(built))
    IN  /\ DOMAIN s.userMap = IdsOf(built)
        /\ Range(s.roots) \subseteq DOMAIN s.userMap
        /\ \A x \in DOMAIN s.userMap :
             Range(s.userMap[x].children) \subseteq DOMAIN s.userMap
        /\ Len(s.roots) + ChildCount(s.userMap, DOMAIN s.userMap) = Len(built)
        /\ hierarchy.roots = s.roots
        /\ DOMAIN hierarchy.nodes \subseteq DOMAIN s.userMap

\* The builder has returned for three records with a duplicate id, a
\* record that manages itself and a dangling managerId.
C13_Witness ==
    /\ Len(built) = 3
    /\ ~UniqueIds(built)
    /\ \E k \in 1..3 : Truthy(built[k].id) /\ built[k].managerId = built[k].id
    /\ \E k \in 1..3 :
         Truthy(built[k].managerId) /\ built[k].managerId \notin IdsOf(built)

\* The ids a managerId refers to; with strict, as the builder resolves it:
\* a falsy managerId refers to no record.
LinksTo(rel, m, strict) ==
    IF strict /\ ~Truthy(m) THEN {} ELSE RefersTo(rel, m)

\* Following managerId references from a record with id x for one to n
\* steps arrives at the id y.
RECURSIVE Returns(_, _, _, _, _)
Returns(rel, x, y, n, strict) ==
    /\ n > 0
    /\ \E k \in 1..Len(rel) :
         /\ rel[k].id = x
         /\ \E p \in LinksTo(rel, rel[k].managerId, strict) :
              p = y \/ Returns(rel, p, y, n - 1, strict)

\* The id x lies on a manager cycle of the relation.
OnCycle(rel, x, strict) == Returns(rel, x, x, Len(rel), strict)

\* C14 (as claimed): no record of a manager cycle, a record that is its own
\* manager included, is a root or nested under a node reachable from a
\* root.
C14_CyclesAllInputs ==
    \A x \in IdsOf(built) :
      OnCycle(built, x, FALSE) => x \notin DOMAIN hierarchy.nodes

\* C14: for unique ids, no record of a manager cycle whose managerIds are
\* all truthy (a record that is its own manager with a non-zero id
\* included) is a root or nested under a node reachable from a root.  A
\* cycle through the id 0 is broken by the builder, which takes the
\* managerId 0 for no manager.
C14_Cycles ==
    UniqueIds(built) =>
      \A x \in IdsOf(built) :
        OnCycle(built, x, TRUE) =>
          /\ x \notin DOMAIN hierarchy.nodes
          /\ ~Placed(hierarchy, x)

\* Two records that manage each other were built together with a third
\* record, which is the only node of the forest.
C14_Witness ==
    /\ Len(built) = 3
    /\ UniqueIds(built)
    /\ \E j, k \in 1..3 :
         /\ j # k
         /\ built[j].managerId = built[k].id
         /\ built[k].managerId = built[j].id
         /\ Truthy(built[j].id) /\ Truthy(built[k].id)
         /\ hierarchy.roots # <<>>
         /\ DOMAIN hierarchy.nodes = IdsOf(built) \ {built[j].id, built[k].id}

\* No managerId of the relation is the id of a record of the relation:
\* every record is without a managerId, or every managerId is dangling.
Flat(rel) == \A k \in 1..Len(rel) : rel[k].managerId \notin IdsOf(rel)

\* The forest is the sequence rel, each record with empty children.
IsFlatForestOf(h, rel) ==
    /\ h.roots = [k \in 1..Len(rel) |-> rel[k].id]
    /\ DOMAIN h.nodes = IdsOf(rel)
    /\ \A k \in 1..Len(rel) :
         LET n == h.nodes[rel[k].id]
         IN  /\ n.children = <<>>
             /\ \A f \in DOMAIN rel[k] : n[f] = rel[k][f]

\* C16 (as claimed): for the empty relation the forest is empty, and when
\* every record has no managerId, or every managerId matches no record id,
\* the forest is the input sequence in input order with empty children.
C16_FlatAllInputs == Flat(built) => IsFlatForestOf(hierarchy, built)

\* C16: for unique ids, the forest of the empty relation is empty, and when
\* every record has no managerId, or every managerId matches no record id,
\* the forest is the input sequence in input order with empty children.
\* With a duplicated id the roots are still one per record in input order,
\* but each of them is the node of the last record with that id.
C16_Flat ==
    /\ Flat(built) =>
         /\ hierarchy.roots = [k \in 1..Len(built) |-> built[k].id]
         /\ \A x \in DOMAIN hierarchy.nodes : hierarchy.nodes[x].children = <<>>
    /\ Flat(built) /\ UniqueIds(built) => IsFlatForestOf(hierarchy, built)

\* Two records with different ids were built, one without a managerId and
\* one with a dangling managerId.
C16_Witness ==
    /\ Len(built) = 2
    /\ Len(hierarchy.roots) = 2
    /\ UniqueIds(built)
    /\ Flat(built)
    /\ \E k \in 1..2 : built[k].managerId = Undef
    /\ \E k \in 1..2 : Truthy(built[k].managerId)

\* C17: every node of the forest carries all the fields of a record with
\* its id unchanged (id, managerId, email, firstName, lastName, photo, and
\* password), and has the children sequence as its only other field.
C17_FieldsPreserved ==
    \A x \in DOMAIN hierarchy.nodes :
      \E k \in 1..Len(built) :
        /\ built[k].id = x
        /\ DOMAIN hierarchy.nodes[x] = DOMAIN built[k] \cup {"children"}
        /\ \A f \in DOMAIN built[k] : hierarchy.nodes[x][f] = built[k][f]

\* A record with a photo and a manager is a node nested under its manager.
C17_Witness ==
    \E k \in 1..Len(built) :
      /\ built[k].photo # Undef
      /\ HasManager(built, k)
      /\ UniqueIds(built)
      /\ built[k].managerId \in DOMAIN hierarchy.nodes
      /\ built[k].id \in Range(hierarchy.nodes[built[k].managerId].children)
      /\ hierarchy.nodes[built[k].id].photo = built[k].photo

\* C20: after removeUser(node) the stored users are the result of a single
\* removeNode on the users before the call (the same array of the same
\* objects, in the state the single call leaves them in), and the stored
\* hierarchy is buildHierarchy of the stored users, although removeNode
\* runs twice on the array the first run has mutated in place.
C20_RemoveUserConsistent ==
    [][\A node \in Nodes :
         RemoveUser(node) =>
           LET single == removeNode(users, heap, node)
           IN  /\ users' = single.out
               /\ heap' = single.heap
               /\ hierarchy' = buildHierarchy(Deref(users', heap'))]_vars

\* A removal has taken a record out of the users and a record that
\* remains is nested in the rebuilt hierarchy.
C20_Witness ==
    /\ Len(users) < Len(cache)
    /\ built = Deref(users, heap)
    /\ hierarchy = buildHierarchy(Deref(users, heap))
    /\ \E x \in DOMAIN hierarchy.nodes : hierarchy.nodes[x].children # <<>>

-----------------------------------------------------------------------------
(***************************************************************************)
(* The login and the card.                                                 *)
(***************************************************************************)

\* The effects of a successful login, in order.
LoginSteps == <<"fetch", "authenticate", "setQueryData", "navigate">>

\* C18: a login through useLoginMutation sends exactly one request: every
\* request is the one that starts a login, and the Hierarchy page sends
\* none.  On success the login authenticates the user, then stores the
\* fetched users under the "users" key of the query cache, then navigates
\* to /hierarchy, so on /hierarchy the user is authenticated and the cache
\* holds the users the page shows.  When the request or the validation
\* fails, the user is not authenticated, nothing is added to the log of
\* the login after the request, and the route stays "/".
C18_LoginCachePopulation ==
    /\ [](/\ \E n \in 0..Len(LoginSteps) : log = SubSeq(LoginSteps, 1, n)
          /\ mutation.status = "success" => log = LoginSteps
          /\ mutation.status = "pending" =>
               /\ Len(log) = (IF mutation.step = 0 THEN 1 ELSE mutation.step)
               /\ route = "/"
               /\ mutation.step >= 2 =>
                    auth = setAuth(UserInfo(MutationData.user))
               /\ mutation.step >= 3 =>
                    /\ "users" \in DOMAIN queryCache
                    /\ queryCache["users"] = firebase.users
          /\ mutation.status = "error" =>
               /\ log = <<"fetch">>
               /\ ~auth.isAuthenticated
               /\ route = "/"
          /\ route = "/hierarchy" =>
               /\ auth.isAuthenticated
               /\ "users" \in DOMAIN queryCache
               /\ queryCache["users"] = firebase.users
          /\ page.loaded => page.users = firebase.users)
    /\ [][/\ fetches' # fetches =>
               fetches' = fetches + 1 /\ log' = <<"fetch">>
          /\ (mutation'.status = "error" /\ mutation.status # "error") =>
               UNCHANGED <<auth, queryCache, route>>]_vars

\* A login has succeeded with one request, and the Hierarchy page shows the
\* two users of the server out of the cache.
C18_Witness ==
    /\ mutation.status = "success"
    /\ route = "/hierarchy"
    /\ auth.isAuthenticated
    /\ page.loaded
    /\ Len(page.users) = 2
    /\ fetches = 1
    /\ log = LoginSteps

\* 'firstName lastName'
FullName(user) == user.firstName \o <<" ">> \o user.lastName

\* C19: a card whose user has a photo, before any image load error,
\* renders an image with the photo URL as src and the full name of the
\* user as alt text; a card whose user has no photo renders the initials
\* of the user.
C19_DisplayMode ==
    LET avatar == UserCard(cardUser, imageError)
    IN  /\ Truthy(cardUser.photo) /\ ~imageError =>
             /\ avatar.tag = "img"
             /\ avatar.src = cardUser.photo
             /\ avatar.alt = FullName(cardUser)
        /\ cardUser.photo = Undef =>
             /\ avatar.tag = "div"
             /\ avatar.text = <<toUpperCase(cardUser.firstName[1]),
                                toUpperCase(cardUser.lastName[1])>>

-----------------------------------------------------------------------------
(***************************************************************************)
(* Removal and the shape of the forest.                                    *)
(***************************************************************************)

\* The keys of the nodes nested under the node with key x in the forest h.
Descendants(h, x) ==
    ReachIn(h.nodes[x].children, h.nodes, Cardinality(DOMAIN h.nodes))

\* The node with key x is an ancestor of the node with key y in h.
Ancestor(h, x, y) ==
    /\ x \in DOMAIN h.nodes
    /\ y \in Descendants(h, x)

\* Removing t from R leaves the ancestry among the other records as it is.
AncestryPreserved(R, t) ==
    LET before == buildHierarchy(R)
        after == Rebuilt(t)
    IN  \A x, y \in IdsOf(R) \ {t.id} :
          Ancestor(after, x, y) <=> Ancestor(before, x, y)

\* C21: for a relation R with unique ids and no manager cycle and a target
\* t in R, passed with the managerId of its record, a remaining record x is
\* an ancestor of a remaining record y in buildHierarchy(removeNode(R, t))
\* if and only if it is one in buildHierarchy(R).
C21_AncestryPreserved ==
    \A t \in Nodes :
        LET R == Deref(users, heap)
        IN  (UniqueIds(R) /\ NoCycle(R) /\ NodeOf(R, t))
              => AncestryPreserved(R, t)

\* How often the key x is placed in the forest h: among the roots and in
\* the children of the nodes with keys in S.
RECURSIVE PlacedIn(_, _, _)
PlacedIn(h, S, x) ==
    IF S = {} THEN Occurrences(h.roots, x)
    ELSE LET q == CHOOSE y \in S : TRUE
         IN  Occurrences(h.nodes[q].children, x) + PlacedIn(h, S \ {q}, x)

\* The keys of the nodes at depth n of the forest h; the roots are at depth 0.
RECURSIVE Level(_, _)
Level(h, n) ==
    IF n = 0 THEN Range(h.roots)
    ELSE UNION {Range(h.nodes[x].children) : x \in Level(h, n - 1)}

\* The number of resolved manager links from the record with id x up to a
\* record without a resolved manager, following at most fuel links.
RECURSIVE ChainLength(_, _, _)
ChainLength(rel, x, fuel) ==
    LET k == CHOOSE j \in 1..Len(rel) : rel[j].id = x
    IN  IF fuel = 0 \/ ~HasManager(rel, k) THEN 0
        ELSE 1 + ChainLength(rel, rel[k].managerId, fuel - 1)

\* C22: for an input relation with unique ids and no manager cycle, every
\* record is placed exactly once in the forest returned by buildHierarchy,
\* among the roots when it has no resolved manager and in the children of
\* the node of its resolved manager otherwise, and its depth is the number
\* of resolved manager links on its chain up to a root.
C22_OnceAtItsDepth ==
    (UniqueIds(built) /\ NoCycle(built)) =>
      \A k \in 1..Len(built) :
        LET x == built[k].id
        IN  /\ x \in DOMAIN hierarchy.nodes
            /\ PlacedIn(hierarchy, DOMAIN hierarchy.nodes, x) = 1
            /\ IF HasManager(built, k)
               THEN ChildOnlyOf(hierarchy, x, built[k].managerId)
               ELSE x \in Range(hierarchy.roots)
            /\ \A n \in 0..Len(built) :
                 x \in Level(hierarchy, n) <=> n = ChainLength(built, x, Len(built))

\* A chain of three records was built: one of them is at depth 2.
C22_Witness ==
    /\ Len(built) = 3
    /\ UniqueIds(built)
    /\ NoCycle(built)
    /\ \E x \in IdsOf(built) :
         /\ ChainLength(built, x, 3) = 2
         /\ x \in Level(hierarchy, 2)
         /\ x \notin Range(hierarchy.roots)

\* No dangling manager reference: every managerId that is present is the
\* id of a record of the relation.
NoDangling(rel) ==
    \A k \in 1..Len(rel) :
      rel[k].managerId # Undef => rel[k].managerId \in IdsOf(rel)

\* The relation is well-formed: unique ids, no manager cycle, no dangling
\* manager reference.
WellFormed(rel) == UniqueIds(rel) /\ NoCycle(rel) /\ NoDangling(rel)

\* C23: if R has unique ids, no manager cycle and no dangling manager
\* reference, and t is a record of R passed with its own managerId, then
\* removeNode(R, t) has unique ids, no manager cycle and no dangling manager
\* reference again; and a removeUser of such a node takes the store from
\* well-formed users to well-formed users, so well-formedness lasts through
\* any sequence of such removals.
C23_WellFormedPreserved ==
    /\ [](\A t \in Nodes :
            LET R == Deref(users, heap)
                r == removeNode(users, heap, t)
            IN  (WellFormed(R) /\ NodeOf(R, t))
                  => WellFormed(Deref(r.out, r.heap)))
    /\ [][\A node \in Nodes :
            (/\ WellFormed(Deref(users, heap))
             /\ NodeOf(Deref(users, heap), node)
             /\ RemoveUser(node))
              => WellFormed(Deref(users', heap'))]_vars

\* A removal has left two records of a well-formed relation of three, and
\* one of them has the manager that the removed record had, which is the
\* other record left.
C23_Witness ==
    /\ Len(cache) = 3
    /\ Len(users) = 2
    /\ WellFormed(Deref(users, heap))
    /\ \E j, k \in 1..3 :
         /\ j \in Range(cache) \ Range(users)
         /\ k \in Range(users)
         /\ heap[k].managerId = heap[j].managerId
         /\ heap[k].managerId \in IdsOf(Deref(users, heap))


\* The position of the last record of rel with id x.
LastWith(rel, x) ==
    CHOOSE k \in 1..Len(rel) :
      /\ rel[k].id = x
      /\ \A j \in (k + 1)..Len(rel) : rel[j].id # x

\* C24: when several input records share an id, the node of that id in the
\* forest (the one node every occurrence of the id refers to) carries the
\* fields of the last input record with that id.
C24_LastWriteWins ==
    \A x \in DOMAIN hierarchy.nodes :
      LET last == built[LastWith(built, x)]
      IN  \A f \in DOMAIN last : hierarchy.nodes[x][f] = last[f]

\* Two records share an id and differ in their other fields, and the node
\* of that id in the forest has the email of the later one.
C24_Witness ==
    \E j, k \in 1..Len(built) :
      /\ j < k
      /\ built[j].id = built[k].id
      /\ built[j].email # built[k].email
      /\ built[j].managerId # built[k].managerId
      /\ built[k].id \in DOMAIN hierarchy.nodes
      /\ hierarchy.nodes[built[k].id].email = built[k].email
      /\ LastWith(built, built[k].id) = k


\* removeNode of the record in slot a of the heap, passed as the node the
\* hierarchy holds for it: its id and its managerId as they stand in h.
RemoveSlot(arr, h, a) ==
    removeNode(arr, h, [id |-> h[a].id, managerId |-> h[a].managerId])

\* The relation left by removing the record in slot a and then the one in
\* slot b.
RemoveBoth(arr, h, a, b) ==
    LET first == RemoveSlot(arr, h, a)
        second == RemoveSlot(first.out, first.heap, b)
    IN  Deref(second.out, second.heap)

\* C25: with unique ids and no manager cycle, removing two distinct records
\* a and b in either order leaves the same relation, each removal being
\* given the managerId its target has in the relation at that time.
C25_RemovalsCommute ==
    LET R == Deref(users, heap)
    IN  (UniqueIds(R) /\ NoCycle(R))
          => \A a, b \in Range(users) :
               a # b => RemoveBoth(users, heap, a, b) = RemoveBoth(users, heap, b, a)


\* The store as setUsers(R); setHierarchy() and removeUser leave it: the
\* hierarchy is the forest of the stored users, which have unique ids and
\* no manager cycle.
Drainable ==
    /\ UniqueIds(Deref(users, heap))
    /\ NoCycle(Deref(users, heap))
    /\ built = Deref(users, heap)
    /\ hierarchy = buildHierarchy(built)

\* C26: in a store set up by setUsers(R); setHierarchy() with unique ids and
\* no manager cycle, the hierarchy has as many nodes as users has records
\* and is empty exactly when users is empty, and each removeUser of a node
\* of the hierarchy shortens users by exactly one and leaves the store set
\* up in the same way: n removals empty both users and the hierarchy of a
\* relation of n records.
C26_Draining ==
    /\ [](Drainable =>
            /\ Cardinality(DOMAIN hierarchy.nodes) = Len(users)
            /\ (hierarchy.roots = <<>>) <=> (users = <<>>)
            /\ (TreeNodes = {}) <=> (users = <<>>))
    /\ [][(Drainable /\ \E node \in TreeNodes : RemoveUser(node))
            => (Len(users') = Len(users) - 1 /\ Drainable')]_vars

\* Two removals have left one record of a relation of three, as the only
\* node of the hierarchy.
C26_Witness ==
    /\ Len(cache) = 3
    /\ UniqueIds(Deref(cache, heap))
    /\ Len(users) = 1
    /\ Drainable
    /\ Len(hierarchy.roots) = 1
    /\ hierarchy.nodes[hierarchy.roots[1]].children = <<>>


-----------------------------------------------------------------------------
(***************************************************************************)
(* The Login page and the auth store.                                      *)
(***************************************************************************)

\* The messages validateUser throws.
ValidationErrors(data, secret) ==
    {validateUser(ok, data, secret).error :
       ok \in {b \in BOOLEAN : ~validateUser(b, data, secret).ok}}

\* C27: validateUser decides in this order: a response that is not ok
\* throws "Failed to fetch data from Firebase"; a secret that maps to no id
\* or to a falsy id throws "Invalid credentials"; an id no user has throws
\* "User not found"; otherwise the result is a user of the data whose id is
\* secrets[secret].  validateUserAndFetchAll throws the same error or
\* yields the same user.
C27_ValidateUser ==
    \A ok \in BOOLEAN, secret \in Secrets :
      LET v == validateUser(ok, firebase, secret)
          w == validateUserAndFetchAll(ok, firebase, secret)
          userId == firebase.secrets[secret]
      IN  /\ ~ok => v = Thrown("Failed to fetch data from Firebase")
          /\ (ok /\ ~Truthy(userId)) => v = Thrown("Invalid credentials")
          /\ (ok /\ Truthy(userId) /\ userId \notin IdsOf(firebase.users))
               => v = Thrown("User not found")
          /\ (ok /\ Truthy(userId) /\ userId \in IdsOf(firebase.users))
               => /\ v.ok
                  /\ v.value.id = userId
                  /\ \E k \in 1..Len(firebase.users) : firebase.users[k] = v.value
          /\ v.ok = w.ok
          /\ IF v.ok THEN w.value.user = v.value ELSE w = v

\* The form has settled with "User not found": the secret maps to an id
\* that none of the users has, and another secret maps to the falsy id 0,
\* which a user has.
C27_Witness ==
    /\ form.status = "settled"
    /\ form.state = [message |-> "User not found"]
    /\ firebase.users # <<>>
    /\ \E secret \in Secrets :
         /\ firebase.secrets[secret] = 0
         /\ 0 \in IdsOf(firebase.users)

\* C28: the step in which the form action of Login settles either sets the
\* authenticated user to the validated user, then navigates to /hierarchy,
\* and returns null; or, when validation throws, returns the message of the
\* error and leaves the auth state and the location as they are.  A thrown
\* value that is not an Error gives "Login failed".
C28_LoginAction ==
    /\ [](CatchMessage([ok |-> FALSE]) = "Login failed")
    /\ [][(form.status = "pending" /\ form'.status = "settled") =>
            \/ /\ validateUser(TRUE, firebase, form.secret).ok
               /\ auth' = setAuth(UserInfo(validateUser(TRUE, firebase, form.secret).value))
               /\ log' = log \o <<"authenticate", "navigate">>
               /\ route' = "/hierarchy"
               /\ form'.state = Null
            \/ /\ \E message \in ValidationErrors(firebase, form.secret) :
                    form'.state = [message |-> message]
               /\ auth' = auth
               /\ route' = route
               /\ log' = log]_vars

\* After a login and a logout, a second submission has failed: the form
\* shows "Invalid credentials" on the login page and nobody is logged in.
C28_Witness ==
    /\ form.status = "settled"
    /\ form.state = [message |-> "Invalid credentials"]
    /\ log = <<"authenticate", "navigate">>
    /\ route = "/"
    /\ auth = clearAuth

\* C29: in the auth store isAuthenticated holds exactly when user is not
\* null, whatever sequence of login, clearAuth and logout has run; and
\* logout removes the item "auth-storage", then clears the state (which
\* persist writes to the item again), then navigates to "/", leaving the
\* store unauthenticated.
C29_AuthStore ==
    /\ [](auth.isAuthenticated <=> auth.user # Null)
    /\ [][(route = "/hierarchy" /\ route' = "/") =>
            /\ storage' = Persisted(clearAuth)
            /\ auth' = clearAuth
            /\ ~auth'.isAuthenticated]_vars

\* A user has logged in and logged out: the login page is shown, nobody is
\* authenticated and the item holds the cleared state.
C29_Witness ==
    /\ log # <<>>
    /\ route = "/"
    /\ auth.user = Null
    /\ ~auth.isAuthenticated
    /\ storage = Persisted(clearAuth)
    /\ form = IdleForm


-----------------------------------------------------------------------------
(***************************************************************************)
(* The expand/collapse toggle.                                             *)
(***************************************************************************)

\* C30: a UserTree node starts expanded and every invocation of
\* toggleExpand flips its state: once the component has rendered, the node
\* is expanded exactly when the number of invocations so far is even, also
\* when several of them happened between two renders; and the group of
\* children is rendered exactly when the node has children and is expanded.
C30_ToggleParity ==
    /\ item.calls = 0 => item.isExpanded
    /\ item.queue = <<>> => (item.isExpanded <=> item.calls % 2 = 0)
    /\ GroupRendered(item) <=> (item.children > 0 /\ item.isExpanded)

=============================================================================
